---- MODULE Spec2Model ----
(***************************************************************************)
(* State-machine model of the OPC-UA data collection program:              *)
(*   OPCUA_handler.py  OPCUAFestoModule, OPCUAHandler (monitor_module,     *)
(*                     monitor_mes, stop_all)                              *)
(*   logger.py         PostgresLogger (log, log_station_state, stop,       *)
(*                     _worker_loop, _state_worker)                        *)
(* Python values True / False / None are the strings "true" / "false" /    *)
(* "none"; a timestamp is a clock reading in ticks, NoTime when it is None.*)
(***************************************************************************)
EXTENDS Integers, Sequences, FiniteSets, TLC

\* ------------------------------------------------------------------ bounds
MaxTime == 2
MaxQueue == 2
MaxEvents == 2

\* --------------------------------------------------------- program constants
\* main.py: the configured modules, in list order (two of the seven).
modules == <<"Camera Module", "End Module">>
Stations == {modules[i] : i \in 1..Len(modules)}
\* log(self, enter_time, exit_time, order, part, pos, op, res)
LogParams == 7
\* clock ticks per millisecond (timestamps are finer than the millisecond)
TicksPerMs == 2

NoTime == -1
Values == {"true", "false", "none"}

VARIABLES
    now,                  \* datetime.now(), in ticks
    sink_up,              \* the Durable Sink accepts connections and statements
    \* OPCUAFestoModule
    client,               \* client[m]: self.client is set (connected)
    \* OPCUAHandler
    stop_event,           \* self.stop_event.is_set()
    stop_pc,              \* stop_all: 0 not called, k > 0: event set and
                          \* modules[1..k-1] disconnected
    module_states,        \* self.module_states, "absent" when no key
    module_states_lock,   \* "free" or the holder
    system_downtime_start,
    \* monitor_module, one frame per module
    pc,
    last_state,
    current_state,
    enter_timestamp,
    exit_timestamp,
    order,                \* order/part/pos/op/res: "unbound", "ok" or "none"
    \* monitor_mes
    mes_pc,
    states,               \* the snapshot list(self.module_states.values())
    last_all_idle,
    system_info,          \* rows of table system_info
    \* PostgresLogger, one per module
    cycle_queue,
    state_queue,
    logger_stop,          \* logger's own self.stop_event
    cw_pc, cw_conn,       \* _worker_loop: position, conn is not None
    sw_pc, sw_conn,       \* _state_worker
    log_table,            \* rows of <table_name>
    station_states,       \* rows of table station_states
    \* history (not program state)
    state_events,         \* State Events emitted per module, in order
    last_good,            \* last successfully read readiness value, or "none"
    n_changes,            \* successful readings that differ from last_good
    seen_enter,           \* a true -> false reading pair was observed
    exit_edges,           \* <<matched, unmatched>> false -> true pairs observed
    cycle_events,         \* Cycle Events the monitor computed, in order
    n_logged,             \* monitor calls of logger.log that returned
    sink_was_down,        \* the sink has been unreachable at some point
    sink_seen_up,         \* a worker iteration has met the sink reachable
    idle_since,           \* when monitor_mes last saw the plant become all-idle
    worker_errors,        \* workers of the module that handled an exception
    cycle_put,            \* items put on cycle_queue, in order
    cycle_taken,          \* fate of each item taken off cycle_queue, in order
    state_taken,          \* fate of each item taken off state_queue, in order
    \* the database as PostgresLogger.__init__ meets it
    db_loggers,           \* module names a PostgresLogger was constructed for
    db_tables,            \* cycle-log tables by table name, "absent" or rows
    db_states_exists,     \* table station_states exists
    db_states             \* rows of station_states, keyed by module name

monitor_vars == <<pc, last_state, current_state, enter_timestamp, exit_timestamp, order>>
mes_vars == <<mes_pc, states, last_all_idle, system_info, system_downtime_start>>
logger_vars == <<cycle_queue, state_queue, logger_stop, cw_pc, cw_conn, sw_pc, sw_conn,
                 log_table, station_states>>
hist_vars == <<state_events, last_good, n_changes, seen_enter, exit_edges,
               cycle_events, n_logged, sink_was_down, sink_seen_up, idle_since, worker_errors,
               cycle_put, cycle_taken, state_taken>>
ctor_vars == <<db_loggers, db_tables, db_states_exists, db_states>>
vars == <<now, sink_up, client, stop_event, stop_pc, module_states, module_states_lock,
          pc, last_state, current_state, enter_timestamp, exit_timestamp, order,
          mes_pc, states, last_all_idle, system_info, system_downtime_start,
          cycle_queue, state_queue, logger_stop, cw_pc, cw_conn, sw_pc, sw_conn,
          log_table, station_states,
          state_events, last_good, n_changes, seen_enter, exit_edges,
          cycle_events, n_logged, sink_was_down, sink_seen_up, idle_since, worker_errors,
          cycle_put, cycle_taken, state_taken,
          db_loggers, db_tables, db_states_exists, db_states>>

\* ------------------------------------------------------------ pure helpers
\* None taken as truthy.
TruthyOrNone(v) == v # "false"

\* Python truthiness of a readiness value: None and False are falsy.
Truthy(v) == v = "true"

\* OPCUAFestoModule.get_value: None when not connected, None when the read
\* raises, the value otherwise.
get_value(m) == IF ~client[m] THEN {"none"} ELSE {"true", "false", "none"}

\* The five metadata reads of one edge, taken together.
get_meta(m) == IF ~client[m] THEN {"none"} ELSE {"ok", "none"}

\* The duration taken in ticks, not in milliseconds.
ToMsNoScale(d) == d

\* int((b - a).total_seconds() * 1000)
ToMs(d) == IF d >= 0 THEN d \div TicksPerMs ELSE -((-d) \div TicksPerMs)

\* PostgresLogger.log_station_state: state_queue.put((module_name, state))
log_station_state(q, m, state) == Append(q, <<m, state>>)

\* PostgresLogger.log: cycle_queue.put((enter_time, ..., res))
log(q, args) == Append(q, args)

\* A call binds positionally: it raises TypeError unless the argument
\* count equals the parameter count.
CallRaises(args, nparams) == Len(args) # nparams

\* -------------------------------------------------------------- table names
\* A module name as the string of its characters.
ModuleName ==
    [m \in Stations |->
        IF m = "Camera Module"
        THEN <<"C", "a", "m", "e", "r", "a", " ", "M", "o", "d", "u", "l", "e">>
        ELSE <<"E", "n", "d", " ", "M", "o", "d", "u", "l", "e">>]

\* Module names a PostgresLogger is constructed for: those of main.py and
\* two further names, each different from all the others.
Names ==
    {ModuleName[m] : m \in Stations}
        \cup {<<"e", "n", "d", " ", "m", "o", "d", "u", "l", "e">>,
              <<"E", "n", "d", "_", "M", "o", "d", "u", "l", "e">>}

\* str.lower on one character (the capitals in use).
Lower(c) == CASE c = "C" -> "c" [] c = "E" -> "e" [] c = "M" -> "m" [] OTHER -> c

\* str.replace(" ", "_") on one character.
ReplaceSpace(c) == IF c = " " THEN "_" ELSE c

\* Line 11: module_name.lower().replace(" ", "_") + "_logs"
table_name(name) ==
    [i \in 1..Len(name) |-> ReplaceSpace(Lower(name[i]))] \o <<"_", "l", "o", "g", "s">>

TableNames == {table_name(n) : n \in Names}

\* ------------------------------------------------------------------- Init
\* The state after OPCUAFestoModule.__init__ / PostgresLogger.__init__ of
\* every module and OPCUAHandler.__init__: tables created, system_info
\* holding its one row, each module connected, all threads about to start.
InitRest ==
    /\ now = 0
    /\ client = [m \in Stations |-> TRUE]
    /\ stop_event = FALSE
    /\ stop_pc = 0
    /\ module_states = [m \in Stations |-> "absent"]
    /\ module_states_lock = "free"
    /\ system_downtime_start = NoTime
    /\ pc = [m \in Stations |-> "init"]
    /\ last_state = [m \in Stations |-> "none"]
    /\ current_state = [m \in Stations |-> "none"]
    /\ enter_timestamp = [m \in Stations |-> NoTime]
    /\ exit_timestamp = [m \in Stations |-> NoTime]
    /\ order = [m \in Stations |-> "unbound"]
    /\ mes_pc = "top"
    /\ states = <<>>
    /\ last_all_idle = "none"
    /\ system_info = <<[system_start |-> 0, total_downtime |-> 0]>>
    /\ cycle_queue = [m \in Stations |-> <<>>]
    /\ state_queue = [m \in Stations |-> <<>>]
    /\ logger_stop = [m \in Stations |-> FALSE]
    /\ cw_pc = [m \in Stations |-> "run"]
    /\ cw_conn = [m \in Stations |-> FALSE]
    /\ sw_pc = [m \in Stations |-> "run"]
    /\ sw_conn = [m \in Stations |-> FALSE]
    /\ log_table = [m \in Stations |-> <<>>]
    /\ station_states = {}
    /\ state_events = [m \in Stations |-> <<>>]
    /\ last_good = [m \in Stations |-> "none"]
    /\ n_changes = [m \in Stations |-> 0]
    /\ seen_enter = [m \in Stations |-> FALSE]
    /\ exit_edges = [m \in Stations |-> <<0, 0>>]
    /\ cycle_events = [m \in Stations |-> <<>>]
    /\ n_logged = [m \in Stations |-> 0]
    /\ sink_was_down = FALSE
    /\ sink_seen_up = FALSE
    /\ idle_since = NoTime
    /\ worker_errors = [m \in Stations |-> {}]
    /\ cycle_put = [m \in Stations |-> <<>>]
    /\ cycle_taken = [m \in Stations |-> <<>>]
    /\ state_taken = [m \in Stations |-> <<>>]

\* The database before any PostgresLogger is constructed.
DbEmpty ==
    /\ db_loggers = {}
    /\ db_tables = [t \in TableNames |-> [exists |-> FALSE, rows |-> <<>>]]
    /\ db_states_exists = FALSE
    /\ db_states = {}

\* The database after main.py has constructed the loggers of the modules:
\* each one's cycle-log table dropped and created anew, station_states there.
DbConstructed ==
    /\ db_loggers = {ModuleName[m] : m \in Stations}
    /\ db_tables = [t \in TableNames |->
                      [exists |-> \E m \in Stations : table_name(ModuleName[m]) = t,
                       rows |-> <<>>]]
    /\ db_states_exists = TRUE
    /\ db_states = {}

Init ==
    /\ sink_up = TRUE
    /\ InitRest
    /\ DbConstructed

\* ------------------------------------------------------------ environment
\* datetime.now() never goes back.
Tick ==
    /\ now < MaxTime
    /\ now' = now + 1
    /\ UNCHANGED <<ctor_vars, sink_up, client, stop_event, stop_pc, module_states,
                   module_states_lock, monitor_vars, mes_vars, logger_vars, hist_vars>>

\* --------------------------------------------------------- monitor_module
\* History of one readiness reading v that follows the reading last_state[m].
Observe(m, v) ==
    /\ last_good' = [last_good EXCEPT ![m] = IF v = "none" THEN @ ELSE v]
    /\ n_changes' = [n_changes EXCEPT
                       ![m] = IF v # "none" /\ last_good[m] # "none" /\ v # last_good[m]
                              THEN @ + 1 ELSE @]
    /\ seen_enter' = [seen_enter EXCEPT
                       ![m] = @ \/ (last_state[m] = "true" /\ v = "false")]
    /\ exit_edges' = [exit_edges EXCEPT
                       ![m] = IF last_state[m] = "false" /\ v = "true"
                              THEN IF seen_enter[m] THEN <<@[1] + 1, @[2]>>
                                                    ELSE <<@[1], @[2] + 1>>
                              ELSE @]

\* Lines 146-147: the initial read and its State Event.
MonitorStart(m) ==
    /\ pc[m] = "init"
    /\ \E v \in get_value(m) :
        /\ last_state' = [last_state EXCEPT ![m] = v]
        /\ state_queue' = [state_queue EXCEPT ![m] = log_station_state(@, m, v)]
        /\ state_events' = [state_events EXCEPT ![m] = Append(@, v)]
        /\ last_good' = [last_good EXCEPT ![m] = v]
    /\ pc' = [pc EXCEPT ![m] = "init_lock"]
    /\ UNCHANGED <<ctor_vars, cycle_put, cycle_taken, state_taken,
                   now, sink_up, client, stop_event, stop_pc, module_states,
                   module_states_lock, current_state, enter_timestamp, exit_timestamp,
                   order, mes_vars, cycle_queue, logger_stop, cw_pc, cw_conn, sw_pc,
                   sw_conn, log_table, station_states, n_changes, seen_enter,
                   exit_edges, cycle_events, n_logged, sink_was_down, sink_seen_up, idle_since, worker_errors>>

\* The block entered without waiting for the lock to be free.
MonitorAcquireUnguarded(m) ==
    /\ pc[m] \in {"init_lock", "enter_lock", "exit_lock"}
    /\ module_states_lock' = m
    /\ pc' = [pc EXCEPT ![m] = CASE pc[m] = "init_lock" -> "init_write"
                                 [] pc[m] = "enter_lock" -> "enter_write"
                                 [] pc[m] = "exit_lock" -> "exit_write"]
    /\ UNCHANGED <<ctor_vars, now, sink_up, client, stop_event, stop_pc, module_states,
                   last_state, current_state, enter_timestamp, exit_timestamp, order,
                   mes_vars, logger_vars, hist_vars>>

\* `with self.module_states_lock:` entered at line 148, 159 or 172.
MonitorAcquire(m) ==
    /\ pc[m] \in {"init_lock", "enter_lock", "exit_lock"}
    /\ module_states_lock = "free"
    /\ module_states_lock' = m
    /\ pc' = [pc EXCEPT ![m] = CASE pc[m] = "init_lock" -> "init_write"
                                 [] pc[m] = "enter_lock" -> "enter_write"
                                 [] pc[m] = "exit_lock" -> "exit_write"]
    /\ UNCHANGED <<ctor_vars, now, sink_up, client, stop_event, stop_pc, module_states,
                   last_state, current_state, enter_timestamp, exit_timestamp, order,
                   mes_vars, logger_vars, hist_vars>>

\* Lines 149-151: publish the initial state, leave the lock.
MonitorInitWrite(m) ==
    /\ pc[m] = "init_write"
    /\ module_states_lock = m
    /\ module_states' = [module_states EXCEPT ![m] = last_state[m]]
    /\ module_states_lock' = "free"
    /\ enter_timestamp' = [enter_timestamp EXCEPT ![m] = NoTime]
    /\ pc' = [pc EXCEPT ![m] = "top"]
    /\ UNCHANGED <<ctor_vars, now, sink_up, client, stop_event, stop_pc, last_state,
                   current_state, exit_timestamp, order, mes_vars, logger_vars,
                   hist_vars>>

\* Line 153: `while not self.stop_event.is_set()`.
MonitorTop(m) ==
    /\ pc[m] = "top"
    /\ pc' = [pc EXCEPT ![m] = IF stop_event THEN "done" ELSE "read"]
    /\ UNCHANGED <<ctor_vars, now, sink_up, client, stop_event, stop_pc, module_states,
                   module_states_lock, last_state, current_state, enter_timestamp,
                   exit_timestamp, order, mes_vars, logger_vars, hist_vars>>

\* The branch taken at lines 157 / 170 for the pair (last_state, current_state).
Edge(last, cur) ==
    IF Truthy(last) /\ ~Truthy(cur) THEN "enter"
    ELSE IF ~Truthy(last) /\ Truthy(cur) THEN "exit"
    ELSE "none"

\* Lines 154-158 / 170-171 / 192-193: read, compare, emit the State Event of
\* an edge; without an edge remember the reading and sleep.
MonitorRead(m) ==
    /\ pc[m] = "read"
    /\ \E v \in get_value(m) :
        /\ current_state' = [current_state EXCEPT ![m] = v]
        /\ Observe(m, v)
        /\ IF Edge(last_state[m], v) = "none"
           THEN /\ last_state' = [last_state EXCEPT ![m] = v]
                /\ pc' = [pc EXCEPT ![m] = "top"]
                /\ UNCHANGED <<state_queue, state_events>>
           ELSE /\ state_queue' = [state_queue EXCEPT ![m] = log_station_state(@, m, v)]
                /\ state_events' = [state_events EXCEPT ![m] = Append(@, v)]
                /\ pc' = [pc EXCEPT ![m] = IF Edge(last_state[m], v) = "enter"
                                           THEN "enter_lock" ELSE "exit_lock"]
                /\ UNCHANGED last_state
    /\ UNCHANGED <<ctor_vars, cycle_put, cycle_taken, state_taken,
                   now, sink_up, client, stop_event, stop_pc, module_states,
                   module_states_lock, enter_timestamp, exit_timestamp, order,
                   mes_vars, cycle_queue, logger_stop, cw_pc, cw_conn, sw_pc, sw_conn,
                   log_table, station_states, cycle_events, n_logged, sink_was_down, sink_seen_up, idle_since,
                   worker_errors>>

\* Lines 160-167, 192-193: publish, stamp the entry, read the metadata of the
\* terminal module, remember the reading, sleep.
MonitorEnterWrite(m) ==
    /\ pc[m] = "enter_write"
    /\ module_states_lock = m
    /\ module_states' = [module_states EXCEPT ![m] = current_state[m]]
    /\ module_states_lock' = "free"
    /\ enter_timestamp' = [enter_timestamp EXCEPT ![m] = now]
    /\ IF m = "End Module"
       THEN \E o \in get_meta(m) : order' = [order EXCEPT ![m] = o]
       ELSE UNCHANGED order
    /\ last_state' = [last_state EXCEPT ![m] = current_state[m]]
    /\ pc' = [pc EXCEPT ![m] = "top"]
    /\ UNCHANGED <<ctor_vars, now, sink_up, client, stop_event, stop_pc, current_state,
                   exit_timestamp, mes_vars, logger_vars, hist_vars>>

\* The exit branch without its write of the map: lock taken and left, exit
\* stamped.
MonitorExitWriteUnpublished(m) ==
    /\ pc[m] = "exit_write"
    /\ module_states_lock = m
    /\ module_states_lock' = "free"
    /\ exit_timestamp' = [exit_timestamp EXCEPT ![m] = now]
    /\ pc' = [pc EXCEPT ![m] = "exit_sleep"]
    /\ UNCHANGED <<ctor_vars, now, sink_up, client, stop_event, stop_pc, module_states,
                   last_state, current_state, enter_timestamp, order, mes_vars,
                   logger_vars, hist_vars>>

\* Lines 173-175: publish, stamp the exit, start the settle delay.
MonitorExitWrite(m) ==
    /\ pc[m] = "exit_write"
    /\ module_states_lock = m
    /\ module_states' = [module_states EXCEPT ![m] = current_state[m]]
    /\ module_states_lock' = "free"
    /\ exit_timestamp' = [exit_timestamp EXCEPT ![m] = now]
    /\ pc' = [pc EXCEPT ![m] = "exit_sleep"]
    /\ UNCHANGED <<ctor_vars, now, sink_up, client, stop_event, stop_pc, last_state,
                   current_state, enter_timestamp, order, mes_vars, logger_vars,
                   hist_vars>>

\* The arguments of the call at line 187.
LogArgs(m, o) ==
    LET cycle_time == ToMs(exit_timestamp[m] - enter_timestamp[m])
    IN  <<enter_timestamp[m], exit_timestamp[m], cycle_time, o, o, o, o, o>>

\* Lines 178-193: metadata, cycle time, logger.log, reset. The subtraction
\* raises TypeError when enter_timestamp is None and the call raises TypeError
\* on an argument count that log does not take; either ends the thread.
MonitorExitLog(m) ==
    /\ pc[m] = "exit_sleep"
    /\ \E o \in (IF m # "End Module" THEN get_meta(m) ELSE {order[m]}) :
        /\ order' = [order EXCEPT ![m] = o]
        /\ IF enter_timestamp[m] = NoTime
           THEN /\ pc' = [pc EXCEPT ![m] = "crashed"]
                /\ UNCHANGED <<cycle_queue, cycle_put, cycle_events, n_logged,
                               enter_timestamp, last_state>>
           ELSE /\ cycle_events' = [cycle_events EXCEPT ![m] = Append(@, LogArgs(m, o))]
                /\ IF CallRaises(LogArgs(m, o), LogParams)
                   THEN /\ pc' = [pc EXCEPT ![m] = "crashed"]
                        /\ UNCHANGED <<cycle_queue, cycle_put, n_logged,
                                       enter_timestamp, last_state>>
                   ELSE /\ cycle_queue' = [cycle_queue EXCEPT
                                             ![m] = log(@, LogArgs(m, o))]
                        /\ cycle_put' = [cycle_put EXCEPT
                                            ![m] = Append(@, LogArgs(m, o))]
                        /\ n_logged' = [n_logged EXCEPT ![m] = @ + 1]
                        /\ enter_timestamp' = [enter_timestamp EXCEPT ![m] = NoTime]
                        /\ last_state' = [last_state EXCEPT ![m] = current_state[m]]
                        /\ pc' = [pc EXCEPT ![m] = "top"]
    /\ UNCHANGED <<ctor_vars, cycle_taken, state_taken,
                   now, sink_up, client, stop_event, stop_pc, module_states,
                   module_states_lock, current_state, exit_timestamp, mes_vars,
                   state_queue, logger_stop, cw_pc, cw_conn, sw_pc, sw_conn, log_table,
                   station_states, state_events, last_good, n_changes, seen_enter,
                   exit_edges, sink_was_down, sink_seen_up, idle_since, worker_errors>>

\* ---------------------------------------------------------------- stop_all
\* Line 221.
StopAllSet ==
    /\ stop_pc = 0
    /\ stop_event' = TRUE
    /\ stop_pc' = 1
    /\ UNCHANGED <<ctor_vars, now, sink_up, client, module_states, module_states_lock,
                   monitor_vars, mes_vars, logger_vars, hist_vars>>

\* Lines 222-223 with OPCUAFestoModule.disconnect: the next module of the list.
StopAllDisconnect ==
    /\ stop_pc \in 1..Len(modules)
    /\ client' = [client EXCEPT ![modules[stop_pc]] = FALSE]
    /\ stop_pc' = stop_pc + 1
    /\ UNCHANGED <<ctor_vars, now, sink_up, stop_event, module_states, module_states_lock,
                   monitor_vars, mes_vars, logger_vars, hist_vars>>

\* ------------------------------------------------------------- monitor_mes
\* list(self.module_states.values()), the values of the keys present.
RECURSIVE ValuesFrom(_, _)
ValuesFrom(ms, i) ==
    IF i > Len(modules) THEN <<>>
    ELSE IF ms[modules[i]] = "absent" THEN ValuesFrom(ms, i + 1)
    ELSE <<ms[modules[i]]>> \o ValuesFrom(ms, i + 1)

Snapshot(ms) == ValuesFrom(ms, 1)

\* any(...) in place of all(...).
AllIdleAny(sts) == \E i \in 1..Len(sts) : sts[i] = "true"

\* all(state is True for state in states)
AllIdle(sts) == \A i \in 1..Len(sts) : sts[i] = "true"

\* SET total_downtime = %s: the total overwritten by the last interval.
UpdateDowntimeSet(rows, delta) ==
    [i \in DOMAIN rows |-> [rows[i] EXCEPT !.total_downtime = delta]]

\* UPDATE system_info SET total_downtime = total_downtime + %s
UpdateDowntime(rows, delta) ==
    [i \in DOMAIN rows |-> [rows[i] EXCEPT !.total_downtime = @ + delta]]

\* PostgresConnection.execute: the statement takes effect when the sink is
\* reachable; otherwise the error is logged and the table is as before.
Execute(rows, after) == IF sink_up THEN after ELSE rows

\* Line 113: `while not self.stop_event.is_set()`.
MesTop ==
    /\ mes_pc = "top"
    /\ mes_pc' = IF stop_event THEN "done" ELSE "lock"
    /\ UNCHANGED <<ctor_vars, now, sink_up, client, stop_event, stop_pc, module_states,
                   module_states_lock, monitor_vars, states, last_all_idle, system_info,
                   system_downtime_start, logger_vars, hist_vars>>

\* Line 114: `with self.module_states_lock:`.
MesAcquire ==
    /\ mes_pc = "lock"
    /\ module_states_lock = "free"
    /\ module_states_lock' = "mes"
    /\ mes_pc' = "snapshot"
    /\ UNCHANGED <<ctor_vars, now, sink_up, client, stop_event, stop_pc, module_states,
                   monitor_vars, states, last_all_idle, system_info,
                   system_downtime_start, logger_vars, hist_vars>>

\* Line 115: the snapshot, then the lock is left.
MesSnapshot ==
    /\ mes_pc = "snapshot"
    /\ module_states_lock = "mes"
    /\ states' = Snapshot(module_states)
    /\ module_states_lock' = "free"
    /\ mes_pc' = "eval"
    /\ UNCHANGED <<ctor_vars, now, sink_up, client, stop_event, stop_pc, module_states,
                   monitor_vars, last_all_idle, system_info, system_downtime_start,
                   logger_vars, hist_vars>>

\* Lines 117-142: the determination on the snapshot, then the sleep.
MesEval ==
    /\ mes_pc = "eval"
    /\ mes_pc' = "top"
    /\ IF states = <<>>
       THEN UNCHANGED <<last_all_idle, system_downtime_start, system_info>>
       ELSE /\ last_all_idle' = IF AllIdle(states) THEN "true" ELSE "false"
            /\ IF AllIdle(states) /\ ~Truthy(last_all_idle)
               THEN /\ system_downtime_start' = now
                    /\ UNCHANGED system_info
               ELSE IF ~AllIdle(states) /\ Truthy(last_all_idle)
                       /\ system_downtime_start # NoTime
               THEN /\ system_downtime_start' = NoTime
                    /\ system_info' =
                         Execute(system_info,
                                 UpdateDowntime(system_info,
                                                ToMs(now - system_downtime_start)))
               ELSE UNCHANGED <<system_downtime_start, system_info>>
    /\ idle_since' = IF states # <<>> /\ last_all_idle # "true"
                         /\ (\A i \in DOMAIN states : states[i] = "true")
                      THEN now ELSE idle_since
    /\ UNCHANGED <<ctor_vars, cycle_put, cycle_taken, state_taken,
                   now, sink_up, client, stop_event, stop_pc, module_states,
                   module_states_lock, monitor_vars, states, logger_vars, state_events,
                   last_good, n_changes, seen_enter, exit_edges, cycle_events, n_logged,
                   sink_was_down, sink_seen_up, worker_errors>>

\* The map as monitor_mes meets it: some monitor's write of its own entry
\* (lines 148-149, 159-160, 172-173), made while holding the lock, with the
\* value a reading can have.
MonitorPublish(m) ==
    /\ module_states_lock = "free"
    /\ \E v \in Values : module_states' = [module_states EXCEPT ![m] = v]
    /\ UNCHANGED <<ctor_vars, now, sink_up, client, stop_event, stop_pc, module_states_lock,
                   monitor_vars, mes_vars, logger_vars, hist_vars>>

\* --------------------------------------------------------- PostgresLogger
\* The sink becomes unreachable / reachable again.
SinkDown ==
    /\ sink_up
    /\ sink_up' = FALSE
    /\ sink_was_down' = TRUE
    /\ UNCHANGED <<ctor_vars, cycle_put, cycle_taken, state_taken,
                   now, client, stop_event, stop_pc, module_states, module_states_lock,
                   monitor_vars, mes_vars, logger_vars, state_events, last_good,
                   n_changes, seen_enter, exit_edges, cycle_events, n_logged,
                   sink_seen_up, idle_since, worker_errors>>

SinkUp ==
    /\ ~sink_up
    /\ sink_up' = TRUE
    /\ UNCHANGED <<ctor_vars, now, client, stop_event, stop_pc, module_states, module_states_lock,
                   monitor_vars, mes_vars, logger_vars, hist_vars>>

\* PostgresLogger.stop
LoggerStop(m) ==
    /\ ~logger_stop[m]
    /\ logger_stop' = [logger_stop EXCEPT ![m] = TRUE]
    /\ UNCHANGED <<ctor_vars, now, sink_up, client, stop_event, stop_pc, module_states,
                   module_states_lock, monitor_vars, mes_vars, cycle_queue, state_queue,
                   cw_pc, cw_conn, sw_pc, sw_conn, log_table, station_states, hist_vars>>

\* The logger as its workers meet it: a monitor's log_station_state call
\* (lines 147, 158, 171) with the value a reading can have.
StateCall(m) ==
    /\ Len(state_events[m]) < MaxEvents
    /\ \E v \in Values :
        /\ state_queue' = [state_queue EXCEPT ![m] = log_station_state(@, m, v)]
        /\ state_events' = [state_events EXCEPT ![m] = Append(@, v)]
    /\ UNCHANGED <<ctor_vars, cycle_put, cycle_taken, state_taken,
                   now, sink_up, client, stop_event, stop_pc, module_states,
                   module_states_lock, monitor_vars, mes_vars, cycle_queue, logger_stop,
                   cw_pc, cw_conn, sw_pc, sw_conn, log_table, station_states, last_good,
                   n_changes, seen_enter, exit_edges, cycle_events, n_logged,
                   sink_was_down, sink_seen_up, idle_since, worker_errors>>

\* A caller of PostgresLogger.log with the seven arguments it takes.
LogCall(m) ==
    /\ Len(cycle_put[m]) < MaxQueue
    /\ \E o \in {"ok", "none"} :
        LET args == <<now, now, o, o, o, o, o>>
        IN  /\ ~CallRaises(args, LogParams)
            /\ cycle_queue' = [cycle_queue EXCEPT ![m] = log(@, args)]
            /\ cycle_put' = [cycle_put EXCEPT ![m] = Append(@, args)]
    /\ UNCHANGED <<ctor_vars, now, sink_up, client, stop_event, stop_pc, module_states,
                   module_states_lock, monitor_vars, mes_vars, state_queue, logger_stop,
                   cw_pc, cw_conn, sw_pc, sw_conn, log_table, station_states, state_events, last_good, n_changes,
                   seen_enter, exit_edges, cycle_events, n_logged, sink_was_down,
                   sink_seen_up, idle_since, worker_errors, cycle_taken,
                   state_taken>>

\* Every column is NOT NULL: the statement is rejected when a value is None.
LogRowRejected(item) ==
    \/ item[1] = NoTime
    \/ item[2] = NoTime
    \/ \E i \in 3..Len(item) : item[i] = "none"

StateRowRejected(item) == item[2] = "none"

\* The row put ahead of the rows already there.
InsertLogFront(rows, item) == <<item>> \o rows

\* INSERT INTO <table_name> (...) VALUES (%s, %s, %s, %s, %s, %s, %s)
InsertLog(rows, item) == Append(rows, item)

\* INSERT INTO station_states ... ON CONFLICT (station_name) DO UPDATE SET state
Upsert(rows, item) ==
    {r \in rows : r[1] # item[1]} \cup {item}

\* What one pass through the try block of a worker does, given whether conn
\* is set, whether the queue is empty and whether the sink rejects the row of
\* its head: "connect_error" (_connect raises from its second attempt),
\* "empty" (queue.Empty), "statement_error" (execute or commit raises), "ok".
TryBlock(conn, empty, rejected) ==
    IF ~conn /\ ~sink_up THEN "connect_error"
    ELSE IF empty THEN "empty"
    ELSE IF ~sink_up \/ rejected THEN "statement_error"
    ELSE "ok"

\* _connect called ahead of the try: its error is not caught.
HandledInsideTryOnly(outcome) == outcome \in {"ok", "empty", "statement_error"}

\* The except clauses: queue.Empty continues, any other Exception is printed
\* and conn is set to None. TRUE when the outcome is handled inside the loop.
Handled(outcome) == outcome \in {"ok", "empty", "connect_error", "statement_error"}

\* conn kept through a statement error.
ConnAfterKept(conn, outcome) == outcome # "connect_error"

\* conn after the pass.
ConnAfter(conn, outcome) ==
    IF outcome \in {"connect_error", "statement_error"} THEN FALSE ELSE TRUE

\* History of the items a worker took off its queue: written when the pass
\* came through, dropped when the statement raised after the get.
Taken(hist, outcome) ==
    IF outcome = "ok" THEN Append(hist, "written")
    ELSE IF outcome = "statement_error" THEN Append(hist, "dropped")
    ELSE hist

\* Line 172 with the flag set: _worker_loop returns.
CycleWorkerExit(m) ==
    /\ cw_pc[m] = "run"
    /\ logger_stop[m]
    /\ cw_pc' = [cw_pc EXCEPT ![m] = "done"]
    /\ UNCHANGED <<ctor_vars, now, sink_up, client, stop_event, stop_pc, module_states,
                   module_states_lock, monitor_vars, mes_vars, cycle_queue, state_queue,
                   logger_stop, cw_conn, sw_pc, sw_conn, log_table, station_states,
                   hist_vars>>

\* Lines 172-196: one iteration of _worker_loop.
CycleWorkerIter(m) ==
    /\ cw_pc[m] = "run"
    /\ ~logger_stop[m]
    /\ LET outcome == TryBlock(cw_conn[m], cycle_queue[m] = <<>>,
                               cycle_queue[m] # <<>> /\ LogRowRejected(Head(cycle_queue[m])))
       IN  /\ cw_pc' = [cw_pc EXCEPT ![m] = IF Handled(outcome) THEN "run" ELSE "raised"]
           /\ cw_conn' = [cw_conn EXCEPT ![m] = ConnAfter(@, outcome)]
           /\ cycle_queue' = [cycle_queue EXCEPT
                                ![m] = IF outcome \in {"ok", "statement_error"}
                                       THEN Tail(@) ELSE @]
           /\ log_table' = [log_table EXCEPT
                              ![m] = IF outcome = "ok"
                                     THEN InsertLog(@, Head(cycle_queue[m])) ELSE @]
           /\ worker_errors' = [worker_errors EXCEPT
                                  ![m] = IF outcome \in {"connect_error", "statement_error"}
                                         THEN @ \cup {"cycle"} ELSE @]
           /\ cycle_taken' = [cycle_taken EXCEPT ![m] = Taken(@, outcome)]
           /\ sink_seen_up' = (sink_seen_up \/ sink_up)
    /\ UNCHANGED <<ctor_vars, cycle_put, state_taken,
                   now, sink_up, client, stop_event, stop_pc, module_states,
                   module_states_lock, monitor_vars, mes_vars, state_queue, logger_stop,
                   sw_pc, sw_conn, station_states, state_events, last_good, n_changes,
                   seen_enter, exit_edges, cycle_events, n_logged, sink_was_down,
                   idle_since>>

\* Line 202 with the flag set: _state_worker returns.
StateWorkerExit(m) ==
    /\ sw_pc[m] = "run"
    /\ logger_stop[m]
    /\ sw_pc' = [sw_pc EXCEPT ![m] = "done"]
    /\ UNCHANGED <<ctor_vars, now, sink_up, client, stop_event, stop_pc, module_states,
                   module_states_lock, monitor_vars, mes_vars, cycle_queue, state_queue,
                   logger_stop, cw_pc, cw_conn, sw_conn, log_table, station_states,
                   hist_vars>>

\* Lines 202-223: one iteration of _state_worker.
StateWorkerIter(m) ==
    /\ sw_pc[m] = "run"
    /\ ~logger_stop[m]
    /\ LET outcome == TryBlock(sw_conn[m], state_queue[m] = <<>>,
                               state_queue[m] # <<>> /\ StateRowRejected(Head(state_queue[m])))
       IN  /\ sw_pc' = [sw_pc EXCEPT ![m] = IF Handled(outcome) THEN "run" ELSE "raised"]
           /\ sw_conn' = [sw_conn EXCEPT ![m] = ConnAfter(@, outcome)]
           /\ state_queue' = [state_queue EXCEPT
                                ![m] = IF outcome \in {"ok", "statement_error"}
                                       THEN Tail(@) ELSE @]
           /\ station_states' = IF outcome = "ok"
                                THEN Upsert(station_states, Head(state_queue[m]))
                                ELSE station_states
           /\ worker_errors' = [worker_errors EXCEPT
                                  ![m] = IF outcome \in {"connect_error", "statement_error"}
                                         THEN @ \cup {"state"} ELSE @]
           /\ state_taken' = [state_taken EXCEPT ![m] = Taken(@, outcome)]
           /\ sink_seen_up' = (sink_seen_up \/ sink_up)
    /\ UNCHANGED <<ctor_vars, cycle_put, cycle_taken, now, sink_up, client, stop_event, stop_pc, module_states,
                   module_states_lock, monitor_vars, mes_vars, cycle_queue, logger_stop,
                   cw_pc, cw_conn, log_table, state_events, last_good, n_changes,
                   seen_enter, exit_edges, cycle_events, n_logged, sink_was_down,
                   idle_since>>

\* ------------------------------------------------ PostgresLogger.__init__
\* DROP TABLE IF EXISTS <table_name> CASCADE
DropTable(tables, t) == [tables EXCEPT ![t] = [exists |-> FALSE, rows |-> <<>>]]

\* CREATE TABLE IF NOT EXISTS <table_name> (...)
CreateTable(tables, t) ==
    IF tables[t].exists THEN tables
    ELSE [tables EXCEPT ![t] = [exists |-> TRUE, rows |-> <<>>]]

\* Lines 9-40 with the sink reachable: _ensure_database, _reset_tables when
\* reset, _ensure_log_table, _ensure_states_table.
Construct(name, reset) ==
    /\ sink_up
    /\ name \notin db_loggers
    /\ db_loggers' = db_loggers \cup {name}
    /\ db_tables' = CreateTable(IF reset THEN DropTable(db_tables, table_name(name))
                                         ELSE db_tables,
                                table_name(name))
    /\ db_states_exists' = TRUE
    /\ UNCHANGED <<db_states, now, sink_up, client, stop_event, stop_pc, module_states,
                   module_states_lock, monitor_vars, mes_vars, logger_vars, hist_vars>>

\* The cycle worker of a constructed logger inserting a row (lines 181-189).
DbInsert(name) ==
    /\ sink_up
    /\ name \in db_loggers
    /\ db_tables[table_name(name)].exists
    /\ Len(db_tables[table_name(name)].rows) < MaxQueue
    /\ db_tables' = [db_tables EXCEPT
                       ![table_name(name)].rows =
                            InsertLog(@, <<now, now, "ok", "ok", "ok", "ok", "ok">>)]
    /\ UNCHANGED <<db_loggers, db_states_exists, db_states, now, sink_up, client,
                   stop_event, stop_pc, module_states, module_states_lock,
                   monitor_vars, mes_vars, logger_vars, hist_vars>>

\* The state worker of a constructed logger applying an upsert (lines 210-217).
DbUpsert(name) ==
    /\ sink_up
    /\ name \in db_loggers
    /\ db_states_exists
    /\ \E v \in {"true", "false"} : db_states' = Upsert(db_states, <<name, v>>)
    /\ UNCHANGED <<db_loggers, db_tables, db_states_exists, now, sink_up, client,
                   stop_event, stop_pc, module_states, module_states_lock,
                   monitor_vars, mes_vars, logger_vars, hist_vars>>

\* ------------------------------------------------------------------- Next
\* The whole program: every thread of OPCUAHandler and of the loggers, the
\* clock and the sink.
Next ==
    \/ Tick
    \/ SinkDown
    \/ SinkUp
    \/ StopAllSet
    \/ StopAllDisconnect
    \/ MesTop
    \/ MesAcquire
    \/ MesSnapshot
    \/ MesEval
    \/ \E m \in Stations : MonitorStart(m)
    \/ \E m \in Stations : MonitorAcquire(m)
    \/ \E m \in Stations : MonitorInitWrite(m)
    \/ \E m \in Stations : MonitorTop(m)
    \/ \E m \in Stations : MonitorRead(m)
    \/ \E m \in Stations : MonitorEnterWrite(m)
    \/ \E m \in Stations : MonitorExitWrite(m)
    \/ \E m \in Stations : MonitorExitLog(m)
    \/ \E m \in Stations : LoggerStop(m)
    \/ \E m \in Stations : LogCall(m)
    \/ \E m \in Stations : CycleWorkerExit(m)
    \/ \E m \in Stations : CycleWorkerIter(m)
    \/ \E m \in Stations : StateWorkerExit(m)
    \/ \E m \in Stations : StateWorkerIter(m)

Spec == Init /\ [][Next]_vars

\* The threads meet only at the queues, the map and the tables, and the
\* product of all of them is out of reach of the checker. Each specification
\* below runs one side of an interface in full and the other side as the
\* calls it makes.

\* The station monitors with stop_all and the clock.
NextMonitor ==
    \/ Tick
    \/ StopAllSet
    \/ StopAllDisconnect
    \/ \E m \in Stations : MonitorStart(m)
    \/ \E m \in Stations : MonitorAcquire(m)
    \/ \E m \in Stations : MonitorInitWrite(m)
    \/ \E m \in Stations : MonitorTop(m)
    \/ \E m \in Stations : MonitorRead(m)
    \/ \E m \in Stations : MonitorEnterWrite(m)
    \/ \E m \in Stations : MonitorExitWrite(m)
    \/ \E m \in Stations : MonitorExitLog(m)

SpecMonitor == Init /\ [][NextMonitor]_vars

\* The aggregator with the monitors' writes of the map.
NextMes ==
    \/ Tick
    \/ SinkDown
    \/ SinkUp
    \/ StopAllSet
    \/ MesTop
    \/ MesAcquire
    \/ MesSnapshot
    \/ MesEval
    \/ \E m \in Stations : MonitorPublish(m)

SpecMes == Init /\ [][NextMes]_vars

\* The state workers with the monitors' State Events, stop_all and the sink.
NextStateLogger ==
    \/ SinkDown
    \/ SinkUp
    \/ StopAllSet
    \/ \E m \in Stations : StateCall(m)
    \/ \E m \in Stations : LoggerStop(m)
    \/ \E m \in Stations : StateWorkerExit(m)
    \/ \E m \in Stations : StateWorkerIter(m)

SpecStateLogger == Init /\ [][NextStateLogger]_vars

\* The cycle workers with the callers of log, the clock and the sink.
NextCycleLogger ==
    \/ Tick
    \/ SinkDown
    \/ SinkUp
    \/ \E m \in Stations : LogCall(m)
    \/ \E m \in Stations : LoggerStop(m)
    \/ \E m \in Stations : CycleWorkerExit(m)
    \/ \E m \in Stations : CycleWorkerIter(m)

SpecCycleLogger == Init /\ [][NextCycleLogger]_vars

\* Both workers of every logger with the sink unreachable from the moment
\* the constructors are through until the end of the run.
InitOutage ==
    /\ sink_up = FALSE
    /\ InitRest
    /\ DbConstructed

NextOutage ==
    \/ \E m \in Stations : LogCall(m)
    \/ \E m \in Stations : LoggerStop(m)
    \/ \E m \in Stations : CycleWorkerExit(m)
    \/ \E m \in Stations : CycleWorkerIter(m)
    \/ \E m \in Stations : StateWorkerExit(m)
    \/ \E m \in Stations : StateWorkerIter(m)

SpecOutage == InitOutage /\ [][NextOutage]_vars

\* The monitors and the aggregator at the map and its lock.
NextMap ==
    \/ MesTop
    \/ MesAcquire
    \/ MesSnapshot
    \/ MesEval
    \/ \E m \in Stations : MonitorStart(m)
    \/ \E m \in Stations : MonitorAcquire(m)
    \/ \E m \in Stations : MonitorInitWrite(m)
    \/ \E m \in Stations : MonitorTop(m)
    \/ \E m \in Stations : MonitorRead(m)
    \/ \E m \in Stations : MonitorEnterWrite(m)
    \/ \E m \in Stations : MonitorExitWrite(m)
    \/ \E m \in Stations : MonitorExitLog(m)

SpecMap == Init /\ [][NextMap]_vars

\* Both workers of one logger with their callers and the sink; the loggers
\* of different modules share nothing but the sink.
WorkerStations == {modules[1]}

NextWorkers ==
    \/ SinkDown
    \/ SinkUp
    \/ \E m \in WorkerStations : LogCall(m)
    \/ \E m \in WorkerStations : StateCall(m)
    \/ \E m \in WorkerStations : LoggerStop(m)
    \/ \E m \in WorkerStations : CycleWorkerExit(m)
    \/ \E m \in WorkerStations : CycleWorkerIter(m)
    \/ \E m \in WorkerStations : StateWorkerExit(m)
    \/ \E m \in WorkerStations : StateWorkerIter(m)

SpecWorkers == Init /\ [][NextWorkers]_vars

\* The workers of one logger with a sink that stays reachable and with no
\* stop of the logger; each worker thread keeps being scheduled.
NextHealthy ==
    \/ Tick
    \/ \E m \in WorkerStations : LogCall(m)
    \/ \E m \in WorkerStations : StateCall(m)
    \/ \E m \in WorkerStations : CycleWorkerIter(m)
    \/ \E m \in WorkerStations : StateWorkerIter(m)

SpecHealthy ==
    /\ Init
    /\ [][NextHealthy]_vars
    /\ \A m \in WorkerStations : WF_vars(CycleWorkerIter(m))
    /\ \A m \in WorkerStations : WF_vars(StateWorkerIter(m))

\* The constructors of the loggers, run one after the other against one
\* database, with the rows their workers write in between.
InitReset ==
    /\ sink_up = TRUE
    /\ InitRest
    /\ DbEmpty

NextReset ==
    \/ \E name \in Names : \E reset \in BOOLEAN : Construct(name, reset)
    \/ \E name \in Names : DbInsert(name)
    \/ \E name \in Names : DbUpsert(name)

SpecReset == InitReset /\ [][NextReset]_vars

\* ================================================================ claims
InExit(m) == pc[m] \in {"exit_lock", "exit_write", "exit_sleep"}

\* C1 (as claimed): once a monitor is through the handling of its edges, the
\* Cycle Events it enqueued through logger.log are exactly the false -> true
\* transitions it observed after an observed true -> false transition, and a
\* false -> true transition without one does not end its loop.
C1_CycleEventIffMatchedExit ==
    \A m \in Stations :
        /\ ~InExit(m) => n_logged[m] = exit_edges[m][1]
        /\ exit_edges[m][2] > 0 => pc[m] # "crashed"

\* C2 (as claimed): every Cycle Event a monitor computed has exit >= enter
\* and cycle_time = exit - enter >= 0 in milliseconds, was handed to the
\* logger, and sits in the cycle queue or the cycle-log table with that
\* cycle_time.
C2_CycleTimePersisted ==
    \A m \in Stations : \A i \in 1..Len(cycle_events[m]) :
        LET ev == cycle_events[m][i]
            stored == {cycle_queue[m][j] : j \in 1..Len(cycle_queue[m])}
                        \cup {log_table[m][j] : j \in 1..Len(log_table[m])}
        IN  /\ ev[2] >= ev[1]
            /\ ev[3] >= 0
            /\ ev[3] * TicksPerMs <= ev[2] - ev[1]
            /\ ev[2] - ev[1] < (ev[3] + 1) * TicksPerMs
            /\ \E item \in stored :
                 /\ Len(item) = Len(ev)
                 /\ item[1] = ev[1]
                 /\ item[2] = ev[2]
                 /\ item[3] = ev[3]

\* C3 (as claimed): the State Events of a monitor number one, the initial
\* state, plus the readings that differ from the reading before them, a
\* failed read being no reading.
C3_StateEventsCountChanges ==
    \A m \in Stations :
        pc[m] # "init" => Len(state_events[m]) = 1 + n_changes[m]

\* C4 (as claimed): an iteration whose read fails (get_value gives None)
\* goes back to the top of the loop with no State Event emitted and the next
\* comparison made as against the state before it.
C4_FailedReadIsNoChange ==
    [][\A m \in Stations :
          (pc[m] = "read" /\ pc'[m] # "read" /\ current_state'[m] = "none")
          => /\ pc'[m] = "top"
             /\ state_events'[m] = state_events[m]
             /\ Truthy(last_state'[m]) = Truthy(last_state[m])]_vars

RowsOf(m) == {r \in station_states : r[1] = m}

\* C5 (as claimed): station_states never holds two rows of one station, and
\* with the sink healthy throughout, once the state worker has emptied the
\* state queue of a station, its row holds the last State Event emitted.
C5_UpsertLaw ==
    \A m \in Stations :
        /\ Cardinality(RowsOf(m)) <= 1
        /\ (~sink_was_down /\ state_queue[m] = <<>> /\ state_events[m] # <<>>)
           => RowsOf(m) = {<<m, state_events[m][Len(state_events[m])]>>}

Total == system_info[1].total_downtime

\* C6: the total downtime changes only in a determination of monitor_mes
\* that finds the plant no longer all-idle after an all-idle one, and by the
\* whole milliseconds elapsed since the aggregator saw it become all-idle.
C6_DowntimeAddsElapsed ==
    [][Total' # Total =>
        /\ mes_pc = "eval"
        /\ last_all_idle = "true"
        /\ \E i \in DOMAIN states : states[i] # "true"
        /\ idle_since # NoTime
        /\ (Total' - Total) * TicksPerMs <= now - idle_since
        /\ now - idle_since < (Total' - Total + 1) * TicksPerMs]_vars

C6_Witness ==
    /\ Total > 0
    /\ mes_pc = "top"
    /\ last_all_idle = "false"

Present(ms) == {m \in Stations : ms[m] # "absent"}

\* C7: the snapshot holds the values of the map's entries; on an empty
\* snapshot monitor_mes determines nothing (flag, downtime start and total
\* as before), on any other it judges the plant all-idle exactly when every
\* value is true.
C7_AllIdleDetermination ==
    [][/\ (mes_pc = "snapshot" /\ mes_pc' = "eval")
          => /\ Len(states') = Cardinality(Present(module_states))
             /\ {states'[i] : i \in DOMAIN states'}
                  = {module_states[m] : m \in Present(module_states)}
       /\ (mes_pc = "eval" /\ mes_pc' = "top")
          => IF states = <<>>
             THEN /\ last_all_idle' = last_all_idle
                  /\ system_downtime_start' = system_downtime_start
                  /\ system_info' = system_info
             ELSE /\ last_all_idle' = "true"
                     <=> \A i \in DOMAIN states : states[i] = "true"
                  /\ last_all_idle' \in {"true", "false"}]_vars

C7_Witness ==
    /\ mes_pc = "top"
    /\ Len(states) = Len(modules)
    /\ last_all_idle = "true"
    /\ \E m \in Stations : module_states[m] = "false"

\* C8: system_info holds one row; its system_start never changes and its
\* total downtime never decreases.
C8_DowntimeMonotone ==
    /\ [](Len(system_info) = 1)
    /\ [][/\ system_info'[1].system_start = system_info[1].system_start
          /\ system_info'[1].total_downtime >= system_info[1].total_downtime]_vars

C8_Witness ==
    /\ Total > 0
    /\ last_all_idle = "true"
    /\ system_downtime_start # NoTime

\* C9 (as claimed): once stop_all has raised the stop signal, a loop that
\* comes to its top leaves: a monitor and the aggregator move on to their
\* end, and the only step a worker still takes is its exit.
C9_AllLoopsObserveStop ==
    [][stop_event =>
        /\ \A m \in Stations :
             (pc[m] = "top" /\ pc'[m] # "top") => pc'[m] = "done"
        /\ (mes_pc = "top" /\ mes_pc' # "top") => mes_pc' = "done"
        /\ \A m \in Stations :
             (cw_pc[m] = "run"
                /\ <<cw_pc[m], cw_conn[m], cycle_queue[m]>>'
                     # <<cw_pc[m], cw_conn[m], cycle_queue[m]>>
                /\ Len(cycle_queue'[m]) <= Len(cycle_queue[m]))
             => cw_pc'[m] = "done"
        /\ \A m \in Stations :
             (sw_pc[m] = "run"
                /\ <<sw_pc[m], sw_conn[m], state_queue[m]>>'
                     # <<sw_pc[m], sw_conn[m], state_queue[m]>>
                /\ Len(state_queue'[m]) <= Len(state_queue[m]))
             => sw_pc'[m] = "done"]_vars

\* C10: with the sink unreachable for the whole run no exception leaves
\* _worker_loop or _state_worker: a worker is in its loop or has returned,
\* and it has returned only with its stop signal set.
C10_NoExceptionEscapes ==
    \A m \in Stations :
        /\ cw_pc[m] \in {"run", "done"}
        /\ sw_pc[m] \in {"run", "done"}
        /\ cw_pc[m] = "done" => logger_stop[m]
        /\ sw_pc[m] = "done" => logger_stop[m]

C10_Witness ==
    /\ ~sink_seen_up
    /\ \E m \in Stations :
        /\ worker_errors[m] = {"cycle", "state"}
        /\ cycle_queue[m] # <<>>
        /\ cw_pc[m] = "done"
        /\ sw_pc[m] = "done"

\* C13 (as claimed): the construction of a logger, reset or not, leaves
\* station_states (its existence and its rows) and the cycle-log table of
\* every other station that has a logger as they were.
C13_ResetDropsOwnTableOnly ==
    [][db_loggers' # db_loggers =>
        /\ db_states' = db_states
        /\ db_states_exists => db_states_exists'
        /\ \A other \in db_loggers :
             db_tables'[table_name(other)] = db_tables[table_name(other)]]_vars

\* C11 (as claimed): with the sink unreachable, a pass of a worker that
\* ends in its error handler with an event waiting in its queue has taken
\* the event off the queue, so that the queue is shorter after the pass.
C11_OutageDropsEvents ==
    [][\A m \in Stations :
          /\ ("cycle" \in worker_errors'[m] \ worker_errors[m] /\ cycle_queue[m] # <<>>)
             => cycle_queue'[m] = Tail(cycle_queue[m])
          /\ ("state" \in worker_errors'[m] \ worker_errors[m] /\ state_queue[m] # <<>>)
             => state_queue'[m] = Tail(state_queue[m])]_vars

\* C12 (as claimed): a monitor's call of log_station_state puts one item on
\* state_queue, its call of log at line 187 puts one item on cycle_queue,
\* and either returns to the monitor, which goes on.
C12_RecordNeverRaises ==
    [][\A m \in Stations :
          /\ state_events'[m] # state_events[m]
             => /\ Len(state_queue'[m]) = Len(state_queue[m]) + 1
                /\ pc'[m] # "crashed"
          /\ (pc[m] = "exit_sleep" /\ pc'[m] # "exit_sleep"
                /\ enter_timestamp[m] # NoTime)
             => /\ Len(cycle_queue'[m]) = Len(cycle_queue[m]) + 1
                /\ pc'[m] # "crashed"]_vars

\* The items of put whose fate in taken is "written", in order.
RECURSIVE WrittenOf(_, _, _)
WrittenOf(put, taken, i) ==
    IF i > Len(taken) THEN <<>>
    ELSE IF taken[i] = "written" THEN <<put[i]>> \o WrittenOf(put, taken, i + 1)
    ELSE WrittenOf(put, taken, i + 1)

Waiting(put, taken) == SubSeq(put, Len(taken) + 1, Len(put))

StatePut(m) == [i \in 1..Len(state_events[m]) |-> <<m, state_events[m][i]>>]

LastOf(seq) == IF seq = <<>> THEN {} ELSE {seq[Len(seq)]}

\* C14: an event whose insert or commit fails is off the queue and not in
\* the table, and the worker's connection is discarded with it; the queue
\* holds exactly the events not yet taken, the table exactly the events
\* taken and written, once each and in order (of station_states the row of
\* the last one written); and a pass that writes leaves the worker with a
\* connection.
C14_FailedEventDropped ==
    /\ [](\A m \in Stations :
            /\ cycle_queue[m] = Waiting(cycle_put[m], cycle_taken[m])
            /\ log_table[m] = WrittenOf(cycle_put[m], cycle_taken[m], 1)
            /\ state_queue[m] = Waiting(StatePut(m), state_taken[m])
            /\ RowsOf(m) = LastOf(WrittenOf(StatePut(m), state_taken[m], 1)))
    /\ [][\A m \in Stations :
            /\ cycle_taken'[m] = Append(cycle_taken[m], "dropped")
               => /\ cycle_queue'[m] = Tail(cycle_queue[m])
                  /\ log_table'[m] = log_table[m]
                  /\ ~cw_conn'[m]
            /\ state_taken'[m] = Append(state_taken[m], "dropped")
               => /\ state_queue'[m] = Tail(state_queue[m])
                  /\ station_states' = station_states
                  /\ ~sw_conn'[m]
            /\ log_table'[m] # log_table[m] => cw_conn'[m]
            /\ station_states' # station_states
                  /\ state_taken'[m] # state_taken[m] => sw_conn'[m]]_vars

C14_Witness ==
    \E m \in Stations :
        /\ cycle_taken[m] = <<"dropped", "written">>
        /\ state_taken[m] = <<"dropped", "written">>
        /\ cycle_put[m][1][3] = "ok"
        /\ state_events[m][1] # "none"
        /\ cw_conn[m]
        /\ sw_conn[m]

\* C15 (as claimed): a monitor step that reads the readiness value
\* (get_value at line 146 or 154) is taken with the module's client still
\* connected, and no State Event is emitted by a monitor whose module
\* stop_all has disconnected.
C15_NoReadAfterDisconnect ==
    [][\A m \in Stations :
          /\ (pc[m] \in {"init", "read"} /\ pc'[m] # pc[m]) => client[m]
          /\ state_events'[m] # state_events[m] => client[m]]_vars

LockPcs == {"init_lock", "enter_lock", "exit_lock"}
WritePcs == {"init_write", "enter_write", "exit_write"}
LastEvent(m) == state_events[m][Len(state_events[m])]

\* C16: a monitor that has emitted a State Event next takes
\* module_states_lock and then, holding it, writes the value of that event
\* to its entry of the map; at the top of every loop iteration the entry
\* is the value of the last State Event of the station.
C16_StateEventThenMapWrite ==
    /\ [](\A m \in Stations :
            pc[m] \in {"top", "read", "done"} => module_states[m] = LastEvent(m))
    /\ [][\A m \in Stations :
            /\ state_events'[m] # state_events[m]
               => /\ pc'[m] \in LockPcs
                  /\ state_events'[m] = Append(state_events[m], LastEvent(m)')
            /\ (pc[m] \in LockPcs /\ pc'[m] # pc[m])
               => /\ pc'[m] \in WritePcs
                  /\ module_states_lock = "free"
                  /\ module_states_lock' = m
                  /\ module_states' = module_states
                  /\ state_events' = state_events
            /\ (pc[m] \in WritePcs /\ pc'[m] # pc[m])
               => /\ module_states_lock = m
                  /\ module_states_lock' = "free"
                  /\ module_states'[m] = LastEvent(m)]_vars

C16_Witness ==
    \E m \in Stations :
        /\ pc[m] = "top"
        /\ state_events[m] = <<"true", "false">>
        /\ module_states[m] = "false"
        /\ enter_timestamp[m] # NoTime

\* C17: the map changes only in a step of a monitor that holds
\* module_states_lock, and then only in that monitor's own entry; the
\* aggregator takes its snapshot holding the lock and none of its steps
\* changes the map; the lock passes from one holder to the next only by
\* being free in between.
C17_MapWrittenByMonitorsUnderLock ==
    [][/\ module_states' # module_states
          => \E m \in Stations :
                /\ module_states_lock = m
                /\ pc[m] \in WritePcs
                /\ pc'[m] # pc[m]
                /\ \A other \in Stations \ {m} :
                     module_states'[other] = module_states[other]
       /\ (mes_pc = "snapshot" /\ mes_pc' # mes_pc) => module_states_lock = "mes"
       /\ mes_pc' # mes_pc => module_states' = module_states
       /\ module_states_lock' # module_states_lock
          => (module_states_lock = "free" \/ module_states_lock' = "free")]_vars

C17_Witness ==
    /\ mes_pc = "snapshot"
    /\ module_states_lock = "mes"
    /\ \E m \in Stations : module_states[m] \in Values /\ pc[m] \in LockPcs
    /\ \E m \in Stations : pc[m] = "init_lock"

\* C18 (as claimed): the State Events of a station alternate between true
\* and false; once the handling of an exit edge is through, cycle_queue
\* holds the Cycle Events of the station's cycles in the order of their exit
\* edges, each put after the State Event(true) of its edge.
C18_EventsInDetectionOrder ==
    \A m \in Stations :
        /\ \A i \in 1..(Len(state_events[m]) - 1) :
              {state_events[m][i], state_events[m][i + 1]} = {"true", "false"}
        /\ ~InExit(m)
           => /\ Len(cycle_put[m]) = Len(cycle_events[m])
              /\ \A i \in 1..Len(cycle_put[m]) :
                    /\ cycle_put[m][i][1] = cycle_events[m][i][1]
                    /\ cycle_put[m][i][2] = cycle_events[m][i][2]
        /\ \A i \in 1..(Len(cycle_put[m]) - 1) :
              cycle_put[m][i][2] <= cycle_put[m][i + 1][2]
        /\ cycle_put[m] # <<>> => \E i \in 2..Len(state_events[m]) :
                                     state_events[m][i] = "true"

\* C19 (as claimed): at the top of the loop enter_timestamp is set only if
\* the last observed state is false; it becomes set only in the handling of
\* a true -> false pair of readings, and the handling of the false -> true
\* pair that follows clears it and returns to the top of the loop.
C19_EnterTimestampWhileOccupied ==
    /\ [](\A m \in Stations :
            (pc[m] = "top" /\ enter_timestamp[m] # NoTime) => last_state[m] = "false")
    /\ [][\A m \in Stations :
            /\ (enter_timestamp[m] = NoTime /\ enter_timestamp'[m] # NoTime)
               => (last_state[m] = "true" /\ current_state[m] = "false")
            /\ (pc[m] = "exit_sleep" /\ pc'[m] # pc[m] /\ enter_timestamp[m] # NoTime)
               => (enter_timestamp'[m] = NoTime /\ pc'[m] = "top")]_vars

\* C20: with the sink reachable throughout and the workers running, every
\* item put on a queue is eventually taken off it; an item taken is written
\* unless the sink rejects the statement for a NULL value; the cycle-log
\* table holds the items written, once each and in the order they were put,
\* and station_states the row of the last State Event applied.
C20_HealthySinkDelivers ==
    /\ [](\A m \in Stations :
            /\ \A i \in 1..Len(cycle_taken[m]) :
                  cycle_taken[m][i] = "written" <=> ~LogRowRejected(cycle_put[m][i])
            /\ \A i \in 1..Len(state_taken[m]) :
                  state_taken[m][i] = "written" <=> ~StateRowRejected(StatePut(m)[i])
            /\ log_table[m] = WrittenOf(cycle_put[m], cycle_taken[m], 1)
            /\ RowsOf(m) = LastOf(WrittenOf(StatePut(m), state_taken[m], 1)))
    /\ \A m \in Stations : \A k \in 1..MaxQueue :
          (Len(cycle_put[m]) >= k) ~> (Len(cycle_taken[m]) >= k)
    /\ \A m \in Stations : \A k \in 1..MaxEvents :
          (Len(state_events[m]) >= k) ~> (Len(state_taken[m]) >= k)

C20_Witness ==
    \E m \in Stations :
        /\ Len(log_table[m]) = 2
        /\ log_table[m][1][1] < log_table[m][2][1]
        /\ state_taken[m] = <<"written", "written">>
        /\ state_events[m][1] # state_events[m][2]
        /\ RowsOf(m) = {<<m, state_events[m][2]>>}

\* C21: whenever monitor_mes is at the top of its loop or has left it,
\* system_downtime_start is set exactly if its last determination was
\* all-idle; a first determination that is all-idle records the start; and
\* once the stop signal is observed the total downtime stays as it is, an
\* interval still open included.
C21_DowntimeStartIffAllIdle ==
    /\ [](mes_pc \in {"top", "done"}
            => (system_downtime_start # NoTime <=> last_all_idle = "true"))
    /\ [][/\ (mes_pc = "eval" /\ mes_pc' = "top" /\ last_all_idle = "none"
                /\ states # <<>> /\ \A i \in DOMAIN states : states[i] = "true")
             => system_downtime_start' = now
          /\ (mes_pc' = "done") => system_info' = system_info]_vars

C21_Witness ==
    /\ mes_pc = "done"
    /\ last_all_idle = "true"
    /\ system_downtime_start # NoTime
    /\ system_downtime_start < now
    /\ Total = 0

====
